---- MODULE Spec2Model ----
(***************************************************************************)
(* ObjectView (lib/object-view.js): C-like structs over an ArrayBuffer.    *)
(*                                                                         *)
(* A struct type is a class with the statics schema, fields, objectLength  *)
(* and isInitialized.  A schema is an object, possibly shared by several   *)
(* classes, whose field descriptors initialize() rewrites in place.  A     *)
(* view is a window (byteOffset, byteLength) over a buffer of bytes.       *)
(*                                                                         *)
(* JavaScript values are tagged records: Num(n), Str(code points), Arr(s), *)
(* Obj(r), Undefined.  A property that an object does not have is a key    *)
(* that is not in the DOMAIN of the record that models the object.         *)
(***************************************************************************)
EXTENDS Integers, Sequences, FiniteSets, TLC

VARIABLES
    statics,   \* class name -> the static properties the class itself owns
    schemas,   \* schema object -> sequence of field descriptors (key order)
    declared,  \* the schemas as the program declared them (never changes)
    buffer,    \* the ArrayBuffer under the struct view: index -> byte
    view,      \* the struct view s: [byteOffset, byteLength] over buffer
    sub,       \* the composite view last returned by s.get(field)
    src,       \* the value tree last given to from()/set()
    ret,       \* what the last operation returned
    err,       \* what the last operation threw ("none": it returned)
    last,      \* the last operation and its arguments
    pc         \* number of operations made so far / stage of a pipeline

vars == <<statics, schemas, declared, buffer, view, sub, src, ret, err, last, pc>>

-----------------------------------------------------------------------------
(* Bounds of the model.                                                    *)

MaxFields == 2     \* fields of a generated schema
MaxSize == 2       \* the size of a generated array field
MaxStrLen == 2     \* the byte length of a generated string field

-----------------------------------------------------------------------------
(* JavaScript values.                                                      *)

Num(n) == [t |-> "number", v |-> n]
Str(s) == [t |-> "string", v |-> s]
Arr(s) == [t |-> "array", v |-> s]
Obj(r) == [t |-> "object", v |-> r]
Undefined == [t |-> "undefined"]

\* object[key], undefined when the object has no such property
Prop(object, key) == IF key \in DOMAIN object THEN object[key] ELSE Undefined

\* object.key = value
Put(object, key, value) ==
    [k \in DOMAIN object \cup {key} |-> IF k = key THEN value ELSE object[k]]

Min(a, b) == IF a < b THEN a ELSE b

-----------------------------------------------------------------------------
(* Struct types and schema resolution.                                     *)

\* fieldSizes with the width of int16 taken for that of int32
fieldSizesWideInt16 ==
    [int8 |-> 1, uint8 |-> 1, int16 |-> 4, uint16 |-> 2, int32 |-> 4,
     uint32 |-> 4, float32 |-> 4, float64 |-> 8, bigint64 |-> 8,
     biguint64 |-> 8]

fieldSizes ==
    [int8 |-> 1, uint8 |-> 1, int16 |-> 2, uint16 |-> 2, int32 |-> 4,
     uint32 |-> 4, float32 |-> 4, float64 |-> 8, bigint64 |-> 8,
     biguint64 |-> 8]

NumericKinds == DOMAIN fieldSizes

\* The classes of the program; each extends ObjectView.
Classes == {"Person", "Twin", "House", "Pet"}

\* class Villa extends House {}, with a schema of its own
AllClasses == Classes \cup {"Villa"}

Parent == [c \in AllClasses |-> IF c = "Villa" THEN "House" ELSE "ObjectView"]

\* ObjectView.objectLength = 0; ObjectView.isInitialized = false;
\* ObjectView.fields and ObjectView.schema are undefined.
ObjectViewStatics == [objectLength |-> 0, isInitialized |-> FALSE]

\* C.prop, looked up along the prototype chain of the class
RECURSIVE Static(_, _, _)
Static(w, c, prop) ==
    IF c = "ObjectView" THEN ObjectViewStatics[prop]
    ELSE IF prop \in DOMAIN w.statics[c] THEN w.statics[c][prop]
    ELSE Static(w, Parent[c], prop)

\* Object.keys(schema)
Keys(schema) == [i \in 1..Len(schema) |-> schema[i].name]

\* if (size) taken as never true
HasSizeNever(field) == FALSE

\* if (size): a missing size and size 0 are both falsy
HasSize(field) == "size" \in DOMAIN field /\ field.size # 0

\* the littleEndian flag taken as never set
LittleEndianNever(field) == FALSE

\* the littleEndian flag of a descriptor: a missing flag is falsy
LittleEndian(field) == "littleEndian" \in DOMAIN field /\ field.littleEndian

\* typeof type === 'string': the type is a token, not a class, not undefined
IsTypeToken(field) == "type" \in DOMAIN field /\ field.type \notin Classes

IsClass(field) == "type" \in DOMAIN field /\ field.type \in Classes

\* log2 of the element width: the shift TypedArrayView applies to an index
Log2 == [n \in {1, 2, 4, 8} |-> CASE n = 1 -> 0 [] n = 2 -> 1 [] n = 4 -> 2 [] n = 8 -> 3]

Pow2 == [n \in 0..3 |-> CASE n = 0 -> 1 [] n = 1 -> 2 [] n = 2 -> 4 [] n = 3 -> 8]

\* TypedArrayViewMixin(type, littleEndian): the class of typed-array views
\* of one kind and byte order
TypedArrayViewMixin(type, littleEndian) ==
    [view |-> "TypedArrayView", kind |-> type,
     littleEndian |-> littleEndian, offset |-> Log2[fieldSizes[type]]]

\* TypedArrayView.getLength(size)
TypedArrayGetLength(ctor, size) == size * Pow2[ctor.offset]

\* StringArrayView.getLength(size, length)
StringArrayGetLength(size, length) == size * length

\* field.<key> = value on field i of a schema object
SetField(w, sid, i, key, value) ==
    [w EXCEPT !.schemas[sid][i] = Put(@, key, value)]

Ok(w, r) == [w |-> w, err |-> "none", ret |-> r]
Throw(w, e) == [w |-> w, err |-> e, ret |-> 0]

RECURSIVE Initialize(_, _), GetLength(_, _), ResolveField(_, _, _, _),
          InitializeLoop(_, _, _, _), ArrayViewMixin(_, _)

\* getLength() that returns objectLength without resolving the type
GetLengthNoResolve(w, c) == Ok(w, Static(w, c, "objectLength"))

\* static getLength()
GetLength(w, c) ==
    IF ~Static(w, c, "isInitialized")
    THEN LET r == Initialize(w, c)
         IN  IF r.err # "none" THEN r
             ELSE Ok(r.w, Static(r.w, c, "objectLength"))
    ELSE Ok(w, Static(w, c, "objectLength"))

\* ArrayViewMixin(ObjectViewClass): the class of arrays of a struct type; it
\* resolves the struct type if nobody has, and shares its schema, fields and
\* objectLength
ArrayViewMixin(w, field) ==
    IF ~IsClass(field) THEN Throw(w, "TypeError")
    ELSE LET r == GetLength(w, field.type)
         IN  IF r.err # "none" THEN r
             ELSE Ok(r.w, [view |-> "ArrayView", of |-> field.type])

\* ArrayView.getLength(size)
ArrayGetLength(w, ctor, size) == size * Static(w, ctor.of, "objectLength")

\* one pass of the loop of initialize(): the field's start, then the switch
\* on its type
ResolveField(w, sid, i, lastOffset) ==
    LET field == w.schemas[sid][i]
        w1 == SetField(w, sid, i, "start", lastOffset)
    IN  IF "type" \in DOMAIN field /\ field.type \in NumericKinds
        THEN IF HasSize(field)
             THEN LET ctor == TypedArrayViewMixin(field.type,
                                                  LittleEndian(field))
                      w2 == SetField(w1, sid, i, "ctor", ctor)
                      w3 == SetField(w2, sid, i, "type", "typedarray")
                  IN  Ok(SetField(w3, sid, i, "length",
                                  TypedArrayGetLength(ctor, field.size)), 0)
             ELSE Ok(SetField(w1, sid, i, "length", fieldSizes[field.type]), 0)
        ELSE IF "type" \in DOMAIN field /\ field.type = "string"
        THEN IF HasSize(field)
             THEN LET w2 == SetField(w1, sid, i, "type", "stringarray")
                      w3 == SetField(w2, sid, i, "stringLength", field.length)
                  IN  Ok(SetField(w3, sid, i, "length",
                             StringArrayGetLength(field.size, field.length)), 0)
             ELSE Ok(w1, 0)
        ELSE IF IsTypeToken(field) THEN Throw(w1, "TypeError")
        ELSE IF HasSize(field)
        THEN LET w2 == SetField(w1, sid, i, "type", "array")
                 r == ArrayViewMixin(w2, field)
             IN  IF r.err # "none" THEN r
                 ELSE Ok(SetField(SetField(r.w, sid, i, "ctor", r.ret),
                             sid, i, "length",
                             ArrayGetLength(r.w, r.ret, field.size)), 0)
        ELSE LET w2 == SetField(w1, sid, i, "type", "object")
             IN  IF ~IsClass(field) THEN Throw(w2, "TypeError")
                 ELSE LET w3 == SetField(w2, sid, i, "ctor", field.type)
                          r == GetLength(w3, field.type)
                      IN  IF r.err # "none" THEN r
                          ELSE Ok(SetField(r.w, sid, i, "length", r.ret), 0)

\* the loop with lastOffset = field.length in place of lastOffset += field.length
InitializeLoopNoSum(w, sid, i, lastOffset) ==
    IF i > Len(w.schemas[sid]) THEN Ok(w, lastOffset)
    ELSE LET r == ResolveField(w, sid, i, lastOffset)
         IN  IF r.err # "none" THEN r
             ELSE InitializeLoop(r.w, sid, i + 1, r.w.schemas[sid][i].length)

\* the loop of initialize() from field i on; returns the final lastOffset
InitializeLoop(w, sid, i, lastOffset) ==
    IF i > Len(w.schemas[sid]) THEN Ok(w, lastOffset)
    ELSE LET r == ResolveField(w, sid, i, lastOffset)
         IN  IF r.err # "none" THEN r
             ELSE InitializeLoop(r.w, sid, i + 1,
                                 lastOffset + r.w.schemas[sid][i].length)

\* initialize() marking the type initialized before it walks the schema
InitializeFlagFirst(w, c) ==
    LET sid == Static(w, c, "schema")
        fields == Keys(w.schemas[sid])
        r == InitializeLoop(w, sid, 1, 0)
    IN  IF r.err # "none"
        THEN [r EXCEPT !.w.statics[c] = Put(@, "isInitialized", TRUE)]
        ELSE Ok([r.w EXCEPT !.statics[c] =
                     Put(Put(Put(@, "objectLength", r.ret), "fields", fields),
                         "isInitialized", TRUE)], 0)

\* static initialize()
Initialize(w, c) ==
    LET sid == Static(w, c, "schema")
        fields == Keys(w.schemas[sid])
        r == InitializeLoop(w, sid, 1, 0)
    IN  IF r.err # "none" THEN r
        ELSE Ok([r.w EXCEPT !.statics[c] =
                     Put(Put(Put(@, "objectLength", r.ret), "fields", fields),
                         "isInitialized", TRUE)], 0)

World == [statics |-> statics, schemas |-> schemas]

-----------------------------------------------------------------------------
(* Bytes, numbers and strings.                                             *)

\* buf with bytes written from the 0-based index at on
WriteBytes(buf, at, bytes) ==
    [i \in 1..Len(buf) |->
        IF i - 1 >= at /\ i - 1 < at + Len(bytes) THEN bytes[i - at] ELSE buf[i]]

\* the n bytes of buf from the 0-based index at on
ReadBytes(buf, at, n) == [k \in 1..n |-> buf[at + k]]

Zeros(n) == [k \in 1..n |-> 0]

Reverse(s) == [k \in 1..Len(s) |-> s[Len(s) + 1 - k]]

RECURSIVE Pow256(_)
Pow256(n) == IF n = 0 THEN 1 ELSE 256 * Pow256(n - 1)

\* the kinds whose getter reads a two's-complement signed integer
SignedKinds == {"int8", "int16", "int32"}

\* ToNumber(value), then the conversion of the setters to an integer: an
\* array of one number is that number, and NaN, which undefined, an object
\* and a longer array give, is written as 0
ToInteger(value) ==
    IF value.t = "number" THEN value.v
    ELSE IF value.t = "array" /\ Len(value.v) = 1 /\ value.v[1].t = "number"
    THEN value.v[1].v
    ELSE 0

\* the bytes DataView#set<Kind> stores for an integer kind: the number modulo
\* 2^(8 x width), most significant byte first unless littleEndian (the
\* schemas of the view specifications declare integer kinds of 8 and 16 bits)
NumberBytes(kind, n, littleEndian) ==
    LET width == fieldSizes[kind]
        be == [k \in 1..width |-> (n \div Pow256(width - k)) % 256]
    IN  IF littleEndian THEN Reverse(be) ELSE be

RECURSIVE Unsigned(_, _)
Unsigned(be, n) == IF n = 0 THEN 0 ELSE 256 * Unsigned(be, n - 1) + be[n]

\* the number DataView#get<Kind> reads from the bytes
BytesNumber(kind, bytes, littleEndian) ==
    LET be == IF littleEndian THEN Reverse(bytes) ELSE bytes
        top == IF kind \in SignedKinds /\ be[1] >= 128 THEN be[1] - 256 ELSE be[1]
    IN  Unsigned([be EXCEPT ![1] = top], Len(be))

\* results of reads ([val, err]) and of writes ([buf, err])
Val(x) == [val |-> x, err |-> "none"]
NoVal(e) == [val |-> Undefined, err |-> e]
Wrote(buf) == [buf |-> buf, err |-> "none"]
Failed(buf, e) == [buf |-> buf, err |-> e]

\* the number that adding undefined to a number gives; no offset of the
\* model is negative
NaN == -1

\* field.start: undefined until initialize() has set it
Start(field) == IF "start" \in DOMAIN field THEN field.start ELSE NaN

\* a + b
Plus(a, b) == IF a = NaN \/ b = NaN THEN NaN ELSE a + b

\* ToIndex, which the DataView accessors and the typed-array constructors
\* apply to a byte offset: NaN and undefined are 0
ToIndex(position) == IF position = NaN THEN 0 ELSE position

\* DataView#get<Kind>(position, littleEndian) on the view v: the access must
\* lie within the view's own window
DataViewGet(buf, v, kind, position, littleEndian) ==
    IF ToIndex(position) + fieldSizes[kind] > v.byteLength
    THEN NoVal("RangeError")
    ELSE Val(Num(BytesNumber(kind,
                 ReadBytes(buf, v.byteOffset + ToIndex(position),
                           fieldSizes[kind]),
                 littleEndian)))

\* DataView#set<Kind>(position, value, littleEndian) on the view v
DataViewSet(buf, v, kind, position, value, littleEndian) ==
    IF ToIndex(position) + fieldSizes[kind] > v.byteLength
    THEN Failed(buf, "RangeError")
    ELSE Wrote(WriteBytes(buf, v.byteOffset + ToIndex(position),
                          NumberBytes(kind, ToInteger(value), littleEndian)))

\* new Uint8Array(buffer, byteOffset, length), new DataView(buffer,
\* byteOffset, byteLength): the window must lie within the buffer
WindowFits(buf, byteOffset, length) == byteOffset + length <= Len(buf)

\* the UTF-8 bytes of one code point
Utf8Bytes(cp) ==
    IF cp < 128 THEN <<cp>>
    ELSE IF cp < 2048 THEN <<192 + (cp \div 64), 128 + (cp % 64)>>
    ELSE IF cp < 65536
    THEN <<224 + (cp \div 4096), 128 + ((cp \div 64) % 64), 128 + (cp % 64)>>
    ELSE <<240 + (cp \div 262144), 128 + ((cp \div 4096) % 64),
           128 + ((cp \div 64) % 64), 128 + (cp % 64)>>

\* TextEncoder#encode: the UTF-8 bytes of a string of code points
RECURSIVE Utf8Encode(_)
Utf8Encode(cps) ==
    IF cps = <<>> THEN <<>> ELSE Utf8Bytes(Head(cps)) \o Utf8Encode(Tail(cps))

IsContinuation(b) == b >= 128 /\ b < 192

\* the number of continuation bytes a lead byte announces (0: none, or not a
\* lead byte)
Continuations(b) ==
    IF b >= 194 /\ b < 224 THEN 1
    ELSE IF b >= 224 /\ b < 240 THEN 2
    ELSE IF b >= 240 /\ b < 245 THEN 3 ELSE 0

\* TextDecoder#decode: the code points of UTF-8 bytes; a byte that starts no
\* well-formed sequence decodes to U+FFFD
RECURSIVE Utf8Decode(_)
Utf8Decode(bytes) ==
    IF bytes = <<>> THEN <<>>
    ELSE LET b == Head(bytes)
             n == Continuations(b)
         IN  IF b < 128 THEN <<b>> \o Utf8Decode(Tail(bytes))
             ELSE IF n > 0 /\ Len(bytes) > n
                     /\ \A k \in 2..(n + 1) : IsContinuation(bytes[k])
             THEN LET lead == CASE n = 1 -> b - 192 [] n = 2 -> b - 224
                                [] n = 3 -> b - 240
                      cp == IF n = 1 THEN 64 * lead + (bytes[2] - 128)
                            ELSE IF n = 2
                            THEN 4096 * lead + 64 * (bytes[2] - 128)
                                 + (bytes[3] - 128)
                            ELSE 262144 * lead + 4096 * (bytes[2] - 128)
                                 + 64 * (bytes[3] - 128) + (bytes[4] - 128)
                  IN  <<cp>> \o Utf8Decode(SubSeq(bytes, n + 2, Len(bytes)))
             ELSE <<65533>> \o Utf8Decode(Tail(bytes))

\* the code points of a string value (the writes of this model give
\* fromString strings only; any other value is taken as the empty string)
ToCodePoints(value) == IF value.t = "string" THEN value.v ELSE <<>>

\* StringView.fromString(string): README, 'abc😀a' gives all its 8 bytes
FromString(value) == Utf8Encode(ToCodePoints(value))

\* the longest prefix of whole code points whose UTF-8 bytes fit in n bytes
RECURSIVE FitPrefix(_, _)
FitPrefix(cps, n) ==
    IF cps = <<>> \/ Len(Utf8Bytes(Head(cps))) > n THEN <<>>
    ELSE <<Head(cps)>> \o FitPrefix(Tail(cps), n - Len(Utf8Bytes(Head(cps))))

\* StringView.fromString(string, size): size bytes, the encoding truncated
\* on a code-point boundary and padded with zeros
FromStringSized(value, size) ==
    LET bytes == Utf8Encode(FitPrefix(ToCodePoints(value), size))
    IN  bytes \o Zeros(size - Len(bytes))

\* the bytes before the first zero byte
RECURSIVE UntilZero(_)
UntilZero(bytes) ==
    IF bytes = <<>> \/ Head(bytes) = 0 THEN <<>>
    ELSE <<Head(bytes)>> \o UntilZero(Tail(bytes))

\* StringView#toString: the text of a zero-padded region
StringViewToString(bytes) == Str(Utf8Decode(UntilZero(bytes)))

-----------------------------------------------------------------------------
(* The read path of ObjectView: getObject and its helpers.                 *)

\* schema[name]
Field(w, sid, name) ==
    LET schema == w.schemas[sid]
    IN  schema[CHOOSE i \in 1..Len(schema) : schema[i].name = name]

\* the error of the first read that threw, if any
FirstErr(rs) ==
    IF \A i \in 1..Len(rs) : rs[i].err = "none" THEN "none"
    ELSE rs[CHOOSE i \in 1..Len(rs) :
               rs[i].err # "none" /\ \A j \in 1..(i - 1) : rs[j].err = "none"].err

\* the array of the values read, or the first error
Collect(rs) ==
    IF FirstErr(rs) = "none" THEN Val(Arr([i \in 1..Len(rs) |-> rs[i].val]))
    ELSE NoVal(FirstErr(rs))

\* the string read at position of the buffer, without this.byteOffset
GetStringNoOffset(buf, v, position, length) ==
    IF ~WindowFits(buf, ToIndex(position), length) THEN NoVal("RangeError")
    ELSE Val(StringViewToString(ReadBytes(buf, ToIndex(position), length)))

\* new StringView(this.buffer, this.byteOffset + position, length).toString()
GetString(buf, v, position, length) ==
    LET at == ToIndex(Plus(v.byteOffset, position))
    IN  IF ~WindowFits(buf, at, length) THEN NoVal("RangeError")
        ELSE Val(StringViewToString(ReadBytes(buf, at, length)))

\* getStringArray(position, size, length, stringLength)
GetStringArray(buf, v, position, size, length, stringLength) ==
    Collect([i \in 1..size |->
                GetString(buf, v, position + (i - 1) * stringLength, stringLength)])

\* getTypedArray without the last element
GetTypedArrayShort(buf, v, position, ctor, size) ==
    Collect([i \in 1..(size - 1) |->
                DataViewGet(buf, v, ctor.kind,
                            position + (i - 1) * Pow2[ctor.offset],
                            ctor.littleEndian)])

\* getTypedArray(position, ctor, size)
GetTypedArray(buf, v, position, ctor, size) ==
    Collect([i \in 1..size |->
                DataViewGet(buf, v, ctor.kind,
                            position + (i - 1) * Pow2[ctor.offset],
                            ctor.littleEndian)])

RECURSIVE GetObject(_, _, _, _, _), GetArray(_, _, _, _, _, _),
          GetFieldValue(_, _, _, _, _)

\* getArray with the elements one byte apart
GetArrayNoStride(w, buf, v, position, ctor, size) ==
    Collect([i \in 1..size |->
                GetObject(w, buf, v, Static(w, ctor.of, "schema"),
                          position + (i - 1))])

\* getArray(position, ctor, size)
GetArray(w, buf, v, position, ctor, size) ==
    Collect([i \in 1..size |->
                GetObject(w, buf, v, Static(w, ctor.of, "schema"),
                          position + (i - 1) * Static(w, ctor.of, "objectLength"))])

\* the switch of getObject on the type of one field
GetFieldValue(w, buf, v, field, offset) ==
    LET position == Plus(offset, Start(field))
    IN  IF field.type \in NumericKinds
        THEN DataViewGet(buf, v, field.type, position, LittleEndian(field))
        ELSE IF field.type = "string"
        THEN GetString(buf, v, position, field.length)
        ELSE IF field.type = "typedarray"
        THEN GetTypedArray(buf, v, position, field.ctor, field.size)
        ELSE IF field.type = "stringarray"
        THEN GetStringArray(buf, v, position, field.size, field.length,
                            field.stringLength)
        ELSE IF field.type = "array"
        THEN GetArray(w, buf, v, position, field.ctor, field.size)
        ELSE IF "ctor" \notin DOMAIN field THEN NoVal("TypeError")
        ELSE GetObject(w, buf, v, Static(w, field.ctor, "schema"), position)

\* getObject(schema, offset)
GetObject(w, buf, v, sid, offset) ==
    LET schema == w.schemas[sid]
        rs == [i \in 1..Len(schema) |-> GetFieldValue(w, buf, v, schema[i], offset)]
    IN  IF FirstErr(rs) # "none" THEN NoVal(FirstErr(rs))
        ELSE Val(Obj([name \in {schema[i].name : i \in 1..Len(schema)} |->
                         rs[CHOOSE i \in 1..Len(schema) :
                               schema[i].name = name].val]))

\* getView with the offset taken from the start of the buffer
GetViewNoOffset(buf, v, position, length) ==
    IF ~WindowFits(buf, ToIndex(position), length) THEN NoVal("RangeError")
    ELSE Val([byteOffset |-> ToIndex(position), byteLength |-> length])

\* getView(position, length, Ctor): new Ctor(this.buffer, this.byteOffset +
\* position, length), a window on the buffer of this view
GetView(buf, v, position, length) ==
    LET at == ToIndex(Plus(v.byteOffset, position))
    IN  IF ~WindowFits(buf, at, length) THEN NoVal("RangeError")
        ELSE Val([byteOffset |-> at, byteLength |-> length])

\* field.length as the constructor of the view takes it: a view of undefined
\* length runs to the end of the buffer
LengthOrRest(buf, v, field) ==
    IF "length" \in DOMAIN field THEN field.length
    ELSE Len(buf) - ToIndex(Plus(v.byteOffset, Start(field)))

\* get(field): a number for a scalar field, a view for any other
Get(w, buf, v, cls, name) ==
    LET field == Field(w, Static(w, cls, "schema"), name)
    IN  IF field.type \in NumericKinds
        THEN DataViewGet(buf, v, field.type, Start(field), LittleEndian(field))
        ELSE IF field.type = "stringarray"
        THEN IF ~WindowFits(buf, v.byteOffset + field.start, field.length)
             THEN NoVal("RangeError")
             ELSE Val([byteOffset |-> v.byteOffset + field.start,
                       byteLength |-> field.length])
        ELSE GetView(buf, v, Start(field), LengthOrRest(buf, v, field))

\* setView(field, value): Uint8Array#set of the bytes of the other view into
\* the window of this view, at the start of the field; it throws when they
\* do not fit in the window
SetView(w, buf, v, cls, name, bytes) ==
    LET start == ToIndex(Start(Field(w, Static(w, cls, "schema"), name)))
    IN  IF start + Len(bytes) > v.byteLength THEN Failed(buf, "RangeError")
        ELSE Wrote(WriteBytes(buf, v.byteOffset + start, bytes))

\* toObject()
ToObject(w, buf, v, cls) == GetObject(w, buf, v, Static(w, cls, "schema"), 0)

-----------------------------------------------------------------------------
(* The write path of ObjectView: setValue and its helpers.                 *)

\* value.length: the length of an array; a number or a plain object has no
\* length, and no index is smaller than undefined (0 stands for that here);
\* reading it from undefined throws, which the callers test first
LengthOf(value) == IF value.t = "array" THEN Len(value.v) ELSE 0

\* setString(position, value, length): the region is zero-filled, then
\* Uint8Array#set copies the encoding and throws if it is longer
SetString(buf, v, position, value, length) ==
    LET at == ToIndex(Plus(v.byteOffset, position))
        zeroed == WriteBytes(buf, at, Zeros(length))
        bytes == FromString(value)
    IN  IF ~WindowFits(buf, at, length) THEN Failed(buf, "RangeError")
        ELSE IF Len(bytes) > length THEN Failed(zeroed, "RangeError")
        ELSE Wrote(WriteBytes(zeroed, at, bytes))

\* the loop of setStringArray from element i (0-based) on
RECURSIVE SetStringArrayLoop(_, _, _, _, _, _)
SetStringArrayLoop(buf, at, value, max, stringLength, i) ==
    IF i >= max THEN Wrote(buf)
    ELSE SetStringArrayLoop(
             WriteBytes(buf, at + i * stringLength,
                        FromStringSized(value.v[i + 1], stringLength)),
             at, value, max, stringLength, i + 1)

\* setStringArray without array.fill(0)
SetStringArrayNoFill(buf, v, position, value, size, length, stringLength) ==
    LET at == v.byteOffset + position
    IN  IF ~WindowFits(buf, at, length) THEN Failed(buf, "RangeError")
        ELSE IF value.t = "undefined" THEN Failed(buf, "TypeError")
        ELSE SetStringArrayLoop(buf, at, value, Min(size, LengthOf(value)),
                                stringLength, 0)

\* setStringArray(position, value, size, length, stringLength)
SetStringArray(buf, v, position, value, size, length, stringLength) ==
    LET at == v.byteOffset + position
    IN  IF ~WindowFits(buf, at, length) THEN Failed(buf, "RangeError")
        ELSE IF value.t = "undefined"
        THEN Failed(WriteBytes(buf, at, Zeros(length)), "TypeError")
        ELSE SetStringArrayLoop(WriteBytes(buf, at, Zeros(length)), at, value,
                                Min(size, LengthOf(value)), stringLength, 0)

\* the loop of setTypedArray from element i (0-based) on
RECURSIVE SetTypedArrayLoop(_, _, _, _, _, _, _)
SetTypedArrayLoop(buf, v, position, value, ctor, max, i) ==
    IF i >= max THEN Wrote(buf)
    ELSE LET r == DataViewSet(buf, v, ctor.kind, position + i * Pow2[ctor.offset],
                              value.v[i + 1], ctor.littleEndian)
         IN  IF r.err # "none" THEN r
             ELSE SetTypedArrayLoop(r.buf, v, position, value, ctor, max, i + 1)

\* setTypedArray writing as many elements as the source has
SetTypedArrayNoMin(buf, v, position, value, ctor, size) ==
    IF value.t = "undefined" THEN Failed(buf, "TypeError")
    ELSE SetTypedArrayLoop(buf, v, position, value, ctor, LengthOf(value), 0)

\* setTypedArray(position, value, ctor, size)
SetTypedArray(buf, v, position, value, ctor, size) ==
    IF value.t = "undefined" THEN Failed(buf, "TypeError")
    ELSE SetTypedArrayLoop(buf, v, position, value, ctor,
                           Min(size, LengthOf(value)), 0)

RECURSIVE SetValue(_, _, _, _, _, _, _), SetObject(_, _, _, _, _, _),
          SetObjectLoop(_, _, _, _, _, _, _), SetArray(_, _, _, _, _, _, _),
          SetObjectLoopNoHas(_, _, _, _, _, _, _),
          SetArrayLoop(_, _, _, _, _, _, _, _, _)

\* value[name]: a property of an object; a number has no own properties
Member(value, name) ==
    IF value.t = "object" THEN Prop(value.v, name) ELSE Undefined

\* the loops of setArray from element i, field j (0-based) on
SetArrayLoop(w, buf, v, position, value, ctor, max, i, j) ==
    LET fields == Static(w, ctor.of, "fields")
    IN  IF i >= max THEN Wrote(buf)
        ELSE IF j >= Len(fields)
        THEN SetArrayLoop(w, buf, v, position, value, ctor, max, i + 1, 0)
        ELSE IF value.v[i + 1].t = "undefined" THEN Failed(buf, "TypeError")
        ELSE LET name == fields[j + 1]
                 r == SetValue(w, buf, v, name, Member(value.v[i + 1], name),
                               Static(w, ctor.of, "schema"),
                               position + i * Static(w, ctor.of, "objectLength"))
             IN  IF r.err # "none" THEN r
                 ELSE SetArrayLoop(w, r.buf, v, position, value, ctor, max, i, j + 1)

\* setArray(position, value, ctor, size)
SetArray(w, buf, v, position, value, ctor, size) ==
    IF value.t = "undefined" THEN Failed(buf, "TypeError")
    ELSE SetArrayLoop(w, buf, v, position, value, ctor,
                      Min(size, LengthOf(value)), 0, 0)

\* the loop of setObject without the test of Reflect.has
SetObjectLoopNoHas(w, buf, v, position, value, cls, i) ==
    LET fields == Static(w, cls, "fields")
    IN  IF i >= Len(fields) THEN Wrote(buf)
        ELSE LET r == SetValue(w, buf, v, fields[i + 1],
                               Member(value, fields[i + 1]),
                               Static(w, cls, "schema"), position)
             IN  IF r.err # "none" THEN r
                 ELSE SetObjectLoopNoHas(w, r.buf, v, position, value, cls, i + 1)

\* the loop of setObject from field i (0-based) on
SetObjectLoop(w, buf, v, position, value, cls, i) ==
    LET fields == Static(w, cls, "fields")
    IN  IF i >= Len(fields) THEN Wrote(buf)
        ELSE IF value.t = "object" /\ fields[i + 1] \in DOMAIN value.v
        THEN LET r == SetValue(w, buf, v, fields[i + 1], value.v[fields[i + 1]],
                               Static(w, cls, "schema"), position)
             IN  IF r.err # "none" THEN r
                 ELSE SetObjectLoop(w, r.buf, v, position, value, cls, i + 1)
        ELSE SetObjectLoop(w, buf, v, position, value, cls, i + 1)

\* C.prop is undefined: no class of the chain has it (ObjectView.fields)
NoStatic(w, c, prop) ==
    \A k \in AllClasses \cup {"ObjectView"} :
        (k = c \/ k = Parent[c])
        => prop \notin DOMAIN (IF k = "ObjectView" THEN ObjectViewStatics
                                ELSE w.statics[k])

\* setObject(position, value, ctor): fields.length throws when the class has
\* no field list, Reflect.has throws on a non-object
SetObject(w, buf, v, position, value, cls) ==
    IF NoStatic(w, cls, "fields") THEN Failed(buf, "TypeError")
    ELSE IF value.t \notin {"object", "array"} THEN Failed(buf, "TypeError")
    ELSE SetObjectLoop(w, buf, v, position, value, cls, 0)

\* setValue(field, value, schema, offset)
SetValue(w, buf, v, name, value, sid, offset) ==
    LET field == Field(w, sid, name)
        position == Plus(offset, Start(field))
    IN  IF field.type \in NumericKinds
        THEN DataViewSet(buf, v, field.type, position, value, LittleEndian(field))
        ELSE IF field.type = "string"
        THEN SetString(buf, v, position, value, field.length)
        ELSE IF field.type = "typedarray"
        THEN SetTypedArray(buf, v, position, value, field.ctor, field.size)
        ELSE IF field.type = "array"
        THEN SetArray(w, buf, v, position, value, field.ctor, field.size)
        ELSE IF field.type = "stringarray"
        THEN SetStringArray(buf, v, position, value, field.size, field.length,
                            field.stringLength)
        ELSE IF "ctor" \notin DOMAIN field THEN Failed(buf, "TypeError")
        ELSE SetObject(w, buf, v, position, value, field.ctor)

\* the view that from() returns: a window on all of the new buffer
Fresh(length) == [byteOffset |-> 0, byteLength |-> length]

\* from() over a new buffer whose bytes are not zero
FromSizedDirty(g, object, cls) ==
    IF g.err # "none"
    THEN [w |-> g.w, view |-> Fresh(0), buf |-> <<>>, err |-> g.err]
    ELSE [w |-> g.w, view |-> Fresh(g.ret)]
         @@ SetObject(g.w, [k \in 1..g.ret |-> 1], Fresh(g.ret), 0, object, cls)

\* from(), after getLength() returned g: setObject on the new view, over a
\* zero-filled buffer of g.ret bytes
FromSized(g, object, cls) ==
    IF g.err # "none"
    THEN [w |-> g.w, view |-> Fresh(0), buf |-> <<>>, err |-> g.err]
    ELSE [w |-> g.w, view |-> Fresh(g.ret)]
         @@ SetObject(g.w, Zeros(g.ret), Fresh(g.ret), 0, object, cls)

\* static from(object) without a view: a view of the class over a new
\* zero-filled buffer of getLength() bytes, then setObject
From(w, object, cls) == FromSized(GetLength(w, cls), object, cls)

-----------------------------------------------------------------------------
(* The programs of the resolution specification: the schemas they declare. *)

\* README: Person.schema = { id: uint32, name: string of length 10 }
DocStrLen == 10

Sizes == 1..MaxSize
StrLens == 1..MaxStrLen \cup {DocStrLen}

\* The field descriptors a schema of Person may declare
Descriptors ==
    {[type |-> k] : k \in NumericKinds}
    \cup {[type |-> k, size |-> n] : k \in NumericKinds, n \in Sizes}
    \cup {[type |-> "string", length |-> l] : l \in StrLens}
    \cup {[type |-> "string", length |-> l, size |-> n] :
             l \in 1..MaxStrLen, n \in Sizes}
    \cup {[type |-> c] : c \in {"House", "Pet"}}
    \cup {[type |-> c, size |-> n] : c \in {"House", "Pet"}, n \in Sizes}
    \cup {[type |-> "bool"], [size |-> MaxSize]}

\* The descriptors of the other fields of a generated schema
Fillers ==
    {[type |-> "uint32"], [type |-> "string", length |-> MaxStrLen],
     [type |-> "House"]}

\* The key of the i-th field of a generated schema
FieldName(i) == "f" \o ToString(i)

Named(s) == [i \in 1..Len(s) |-> Put(s[i], "name", FieldName(i))]

\* Schemas of 1..MaxFields fields: any descriptor in one place, fillers in
\* the others
PersonSchemas ==
    UNION {{Named([s EXCEPT ![i] = d]) : i \in 1..Len(s), d \in Descriptors} :
              s \in UNION {[1..n -> Fillers] : n \in 1..MaxFields}}

\* README: House.schema = { size: uint32 }; a House with a field of an
\* unknown type; and a House that nests a Pet, as Person nests a House
HouseSchemas ==
    {<<[name |-> "size", type |-> "uint32"]>>,
     <<[name |-> "size", type |-> "uint16"], [name |-> "door", type |-> "bool"]>>,
     <<[name |-> "size", type |-> "uint32"], [name |-> "pet", type |-> "Pet"]>>}

\* README: Pet.schema = { type: string of length 10 }
PetSchemas ==
    {<<[name |-> "type", type |-> "string", length |-> DocStrLen]>>}

\* class Person extends ObjectView {}; Person.schema = {...}; Twin is a
\* second struct type declared over the schema object of Person
DeclaredStatics ==
    [c \in Classes |->
        [schema |-> CASE c = "Person" -> "PersonSchema"
                      [] c = "Twin" -> "PersonSchema"
                      [] c = "House" -> "HouseSchema"
                      [] c = "Pet" -> "PetSchema"]]

SchemaIds == {"PersonSchema", "HouseSchema", "PetSchema"}

NoView == [byteOffset |-> 0, byteLength |-> 0]
NoSub == [kind |-> "none"]
NoLast == [op |-> "none"]

Init ==
    /\ statics = DeclaredStatics
    /\ \E p \in PersonSchemas, h \in HouseSchemas, q \in PetSchemas :
          schemas = [PersonSchema |-> p, HouseSchema |-> h, PetSchema |-> q]
    /\ declared = schemas
    /\ buffer = <<>>
    /\ view = NoView
    /\ sub = NoSub
    /\ src = Undefined
    /\ ret = 0
    /\ err = "none"
    /\ last = NoLast
    /\ pc = 0

\* C.initialize()
DoInitialize(c) ==
    LET r == Initialize(World, c)
    IN  /\ statics' = r.w.statics
        /\ schemas' = r.w.schemas
        /\ err' = r.err
        /\ ret' = 0
        /\ last' = [op |-> "initialize", cls |-> c]
        /\ UNCHANGED <<declared, buffer, view, sub, src, pc>>

\* C.getLength()
DoGetLength(c) ==
    LET r == GetLength(World, c)
    IN  /\ statics' = r.w.statics
        /\ schemas' = r.w.schemas
        /\ err' = r.err
        /\ ret' = r.ret
        /\ last' = [op |-> "getLength", cls |-> c]
        /\ UNCHANGED <<declared, buffer, view, sub, src, pc>>

Next ==
    \/ \E c \in Classes : DoInitialize(c)
    \/ \E c \in Classes : DoGetLength(c)

Spec == Init /\ [][Next]_vars

-----------------------------------------------------------------------------
(* Properties of schema resolution.                                        *)

\* initialize() has completed on the class
OwnResolved(c) ==
    "isInitialized" \in DOMAIN statics[c] /\ statics[c].isInitialized

SchemaOf(c) == schemas[statics[c].schema]
DeclaredOf(c) == declared[statics[c].schema]

RECURSIVE SumLengths(_, _)
SumLengths(schema, n) ==
    IF n = 0 THEN 0 ELSE SumLengths(schema, n - 1) + schema[n].length

\* C1: once initialize() has completed on a struct type, its fields are
\* packed in declaration order without padding: the first starts at 0, each
\* later one where the one before it ends, objectLength is the sum of the
\* field lengths, and the regions are strictly increasing and disjoint.
C1_Packed ==
    \A c \in Classes : OwnResolved(c) =>
        LET s == SchemaOf(c)
        IN  /\ \A i \in 1..Len(s) :
                  /\ "start" \in DOMAIN s[i] /\ "length" \in DOMAIN s[i]
                  /\ s[i].start =
                        IF i = 1 THEN 0 ELSE s[i - 1].start + s[i - 1].length
            /\ statics[c].objectLength = SumLengths(s, Len(s))
            /\ statics[c].fields = Keys(s)
            /\ \A i, j \in 1..Len(s) : i < j =>
                  /\ s[i].start < s[j].start
                  /\ s[i].start + s[i].length <= s[j].start

\* Person is resolved and has a field that does not start at 0
C1_Witness ==
    /\ OwnResolved("Person")
    /\ last.op \in {"initialize", "getLength"} /\ last.cls = "Person"
    /\ err = "none"
    /\ Len(SchemaOf("Person")) >= 2
    /\ SchemaOf("Person")[2].start > 0

\* the byte width the claim gives each numeric kind
WidthOfKind(k) ==
    CASE k \in {"int8", "uint8"} -> 1
      [] k \in {"int16", "uint16"} -> 2
      [] k \in {"int32", "uint32", "float32"} -> 4
      [] k \in {"float64", "bigint64", "biguint64"} -> 8

\* the length and the resolved type a declared descriptor d must get
LengthAsDeclared(d, f) ==
    IF d.type \in NumericKinds
    THEN IF "size" \in DOMAIN d
         THEN f.length = d.size * WidthOfKind(d.type) /\ f.type = "typedarray"
         ELSE f.length = WidthOfKind(d.type) /\ f.type = d.type
    ELSE IF d.type = "string"
    THEN IF "size" \in DOMAIN d
         THEN f.length = d.size * d.length /\ f.type = "stringarray"
         ELSE f.length = d.length /\ f.type = "string"
    ELSE /\ OwnResolved(d.type)
         /\ IF "size" \in DOMAIN d
            THEN f.length = d.size * statics[d.type].objectLength
                 /\ f.type = "array"
            ELSE f.length = statics[d.type].objectLength /\ f.type = "object"

\* README: { id: uint32, name: string of length 10 }
DocSchema ==
    <<[name |-> FieldName(1), type |-> "uint32"],
      [name |-> FieldName(2), type |-> "string", length |-> DocStrLen]>>

ResolvedSchema(sid) ==
    \E c \in Classes : OwnResolved(c) /\ statics[c].schema = sid

\* C6: initialize() on a struct type whose schema object is already resolved
\* completes without error and leaves every field descriptor and the
\* objectLength as they were.
C6_ReinitializeIsNoOp ==
    [][\A c \in Classes :
          (last'.op = "initialize" /\ last'.cls = c
              /\ ResolvedSchema(statics[c].schema))
          => /\ err' = "none"
             /\ schemas' = schemas
             /\ \A o \in Classes :
                   (OwnResolved(o) /\ statics[o].schema = statics[c].schema)
                   => statics'[c].objectLength = statics[o].objectLength]_vars

\* a declared descriptor whose type is no numeric kind, 'string' or class
InvalidType(d) ==
    "type" \notin DOMAIN d
    \/ d.type \notin NumericKinds \cup {"string"} \cup Classes

\* the declared schema of the class, or of a struct type it nests, has a
\* field of an invalid type
RECURSIVE InvalidSchema(_)
InvalidSchema(c) ==
    \E i \in 1..Len(DeclaredOf(c)) :
        LET d == DeclaredOf(c)[i]
        IN  InvalidType(d) \/ (d.type \in Classes /\ InvalidSchema(d.type))

\* C7: a struct type whose schema has a field of an unrecognised type fails
\* with a TypeError when it is resolved by initialize() or getLength(), and
\* is never left resolved.
C7_InvalidSchemaFails ==
    \A c \in Classes : InvalidSchema(c) =>
        /\ ~OwnResolved(c)
        /\ (last.op \in {"initialize", "getLength"} /\ last.cls = c)
              => err = "TypeError"

\* getLength() of Person has failed on a field of the unknown type 'bool'
C7_Witness ==
    /\ last.op = "getLength" /\ last.cls = "Person" /\ err = "TypeError"
    /\ \E i \in 1..Len(DeclaredOf("Person")) :
          "type" \in DOMAIN DeclaredOf("Person")[i]
          /\ DeclaredOf("Person")[i].type = "bool"

-----------------------------------------------------------------------------
(* The program of the view specifications and the value trees given to it. *)

\* README, with shorter fields: Person { id, name, scores, tags, house, pets }
ViewSchemas ==
    [PersonSchema |->
        <<[name |-> "id", type |-> "uint16"],
          [name |-> "name", type |-> "string", length |-> 3],
          [name |-> "scores", type |-> "int16", size |-> 2, littleEndian |-> TRUE],
          [name |-> "tags", type |-> "string", length |-> 2, size |-> 2],
          [name |-> "house", type |-> "House"],
          [name |-> "pets", type |-> "Pet", size |-> 2]>>,
     HouseSchema |->
        <<[name |-> "size", type |-> "uint16", littleEndian |-> TRUE],
          [name |-> "rooms", type |-> "int8"]>>,
     PetSchema |->
        <<[name |-> "type", type |-> "string", length |-> 2],
          [name |-> "age", type |-> "uint8"]>>]

\* README: the schemas of House, Pet and Person of the ObjectView example
ReadmeSchemas ==
    [PersonSchema |->
        <<[name |-> "name", type |-> "string", length |-> 10],
          [name |-> "scores", type |-> "uint32", size |-> 10],
          [name |-> "house", type |-> "House"],
          [name |-> "pets", type |-> "Pet", size |-> 3]>>,
     HouseSchema |-> <<[name |-> "size", type |-> "uint32"]>>,
     PetSchema |-> <<[name |-> "type", type |-> "string", length |-> 10]>>]

\* README: the object given to Person.from: name 'Zaphod', pets 'dog', 'cat'
ReadmeTree ==
    Obj([name |-> Str(<<90, 97, 112, 104, 111, 100>>),
         scores |-> Arr(<<Num(1), Num(2), Num(3)>>),
         house |-> Obj([size |-> Num(1)]),
         pets |-> Arr(<<Obj([type |-> Str(<<100, 111, 103>>)]),
                        Obj([type |-> Str(<<99, 97, 116>>)])>>)])

MaxChars == 2      \* code points of a generated string
MaxElems == 3      \* elements of a generated source array

\* 'a' (one byte in UTF-8) and U+00E9 (two bytes)
Alphabet == {97, 233}

SeqsUpTo(S, n) == UNION {[1..k -> S] : k \in 0..n}

Strings == SeqsUpTo(Alphabet, MaxChars)

\* two trees that match the schema: every field within its bounds
BaseTrees ==
    {[id |-> Num(258), name |-> Str(<<97, 233>>),
      scores |-> Arr(<<Num(-2), Num(300)>>),
      tags |-> Arr(<<Str(<<233>>), Str(<<97>>)>>),
      house |-> Obj([size |-> Num(513), rooms |-> Num(-1)]),
      pets |-> Arr(<<Obj([type |-> Str(<<97, 97>>), age |-> Num(200)]),
                     Obj([type |-> Str(<<233>>), age |-> Num(1)])>>)],
     [id |-> Num(65535), name |-> Str(<<97>>),
      scores |-> Arr(<<Num(32767), Num(-32768)>>),
      tags |-> Arr(<<Str(<<97, 97>>), Str(<<>>)>>),
      house |-> Obj([size |-> Num(1), rooms |-> Num(127)]),
      pets |-> Arr(<<Obj([type |-> Str(<<>>), age |-> Num(0)]),
                     Obj([type |-> Str(<<97>>), age |-> Num(255)])>>)]}

HouseValues == [size |-> Num(70000), rooms |-> Num(5), zzz |-> Num(9)]

\* the values a tree may give a field of Person: in and out of range,
\* shorter and longer than declared, with missing and with unknown keys
Options(name) ==
    CASE name = "id" ->
            {Num(n) : n \in {0, 258, 65535, 65794, -1}} \cup {Undefined}
      [] name = "name" -> {Str(x) : x \in Strings}
      [] name = "scores" ->
            {Arr(x) : x \in SeqsUpTo({Num(-2), Num(300), Num(40000)}, MaxElems)}
      [] name = "tags" ->
            {Arr(x) : x \in SeqsUpTo({Str(<<97>>), Str(<<233>>),
                                       Str(<<97, 233>>)}, MaxElems)}
      [] name = "house" ->
            {Obj([k \in S |-> HouseValues[k]]) : S \in SUBSET DOMAIN HouseValues}
      [] name = "pets" ->
            {Arr(x) : x \in SeqsUpTo(
                {Obj([type |-> Str(<<97>>), age |-> Num(7)]),
                 Obj([type |-> Str(<<233>>), age |-> Num(255)]),
                 Obj([type |-> Str(<<97>>)]),
                 Obj([type |-> Str(<<97, 233>>), age |-> Num(7)])}, MaxElems)}

PersonFields == {"id", "name", "scores", "tags", "house", "pets"}

\* the trees given to from(): a matching tree with one field replaced, with
\* any subset of its fields, or with a key the schema does not have
Trees ==
    UNION {{Obj(Put(b, f, x)) : b \in BaseTrees, x \in Options(f)} :
              f \in PersonFields}
    \cup {Obj([f \in S |-> b[f]]) : b \in BaseTrees, S \in SUBSET PersonFields}
    \cup {Obj(Put(b, "zzz", Num(9))) : b \in BaseTrees}

-----------------------------------------------------------------------------
(* The encode/decode pipeline: from(v), toObject(), from(toObject()).      *)

\* either program: the README example with its object, or the Person of the
\* view specifications with any of the generated trees
InitCodec ==
    /\ statics = DeclaredStatics
    /\ \/ schemas = ReadmeSchemas /\ src = ReadmeTree
       \/ schemas = ViewSchemas /\ src \in Trees
    /\ declared = schemas
    /\ buffer = <<>>
    /\ view = NoView
    /\ sub = NoSub
    /\ ret = 0
    /\ err = "none"
    /\ last = NoLast
    /\ pc = 0

\* s = Person.from(src)
CodecFrom ==
    /\ pc = 0
    /\ \E r \in {From(World, src, "Person")} :
           /\ statics' = r.w.statics
           /\ schemas' = r.w.schemas
           /\ buffer' = r.buf
           /\ view' = r.view
           /\ err' = r.err
    /\ last' = [op |-> "from"]
    /\ pc' = 1
    /\ UNCHANGED <<declared, sub, src, ret>>

\* s.toObject()
CodecToObject ==
    /\ pc = 1 /\ err = "none"
    /\ LET r == ToObject(World, buffer, view, "Person")
       IN  ret' = r.val /\ err' = r.err
    /\ last' = [op |-> "toObject"]
    /\ pc' = 2
    /\ UNCHANGED <<statics, schemas, declared, buffer, view, sub, src>>

\* Person.from(s.toObject()); the bytes of s are kept in last.bytes
CodecReFrom ==
    /\ pc = 2 /\ err = "none"
    /\ \E r \in {From(World, ret, "Person")} :
           /\ statics' = r.w.statics
           /\ schemas' = r.w.schemas
           /\ buffer' = r.buf
           /\ view' = r.view
           /\ err' = r.err
    /\ last' = [op |-> "refrom", bytes |-> buffer]
    /\ pc' = 3
    /\ UNCHANGED <<declared, sub, src, ret>>

NextCodec == CodecFrom \/ CodecToObject \/ CodecReFrom

SpecCodec == InitCodec /\ [][NextCodec]_vars

-----------------------------------------------------------------------------
(* Properties of the pipeline.                                             *)

InRange(kind, n) ==
    CASE kind = "int8" -> n \in -128..127
      [] kind = "uint8" -> n \in 0..255
      [] kind = "int16" -> n \in -32768..32767
      [] kind = "uint16" -> n \in 0..65535

FitsString(value, length) ==
    value.t = "string" /\ Len(Utf8Encode(value.v)) <= length

\* the value matches the schema within the declared bounds: every field
\* present, numbers in the range of their kind, strings no longer than the
\* declared byte length, arrays of exactly the declared size
RECURSIVE Matches(_, _)
Matches(value, sid) ==
    /\ value.t = "object"
    /\ DOMAIN value.v = {schemas[sid][i].name : i \in 1..Len(schemas[sid])}
    /\ \A i \in 1..Len(schemas[sid]) :
          LET f == schemas[sid][i]
              x == value.v[f.name]
          IN  CASE f.type \in NumericKinds ->
                      x.t = "number" /\ InRange(f.type, x.v)
                [] f.type = "string" -> FitsString(x, f.length)
                [] f.type = "typedarray" ->
                      /\ x.t = "array" /\ Len(x.v) = f.size
                      /\ \A k \in 1..Len(x.v) :
                            x.v[k].t = "number" /\ InRange(f.ctor.kind, x.v[k].v)
                [] f.type = "stringarray" ->
                      /\ x.t = "array" /\ Len(x.v) = f.size
                      /\ \A k \in 1..Len(x.v) : FitsString(x.v[k], f.stringLength)
                [] f.type = "array" ->
                      /\ x.t = "array" /\ Len(x.v) = f.size
                      /\ \A k \in 1..Len(x.v) :
                            Matches(x.v[k], statics[f.ctor.of].schema)
                [] f.type = "object" -> Matches(x, statics[f.ctor].schema)

C4_ReencodeIdempotent ==
    /\ pc >= 1 => err = "none"
    /\ pc = 3 => buffer = last.bytes

\* the tree gives the plain string field name a value longer than declared,
\* and matches the schema otherwise
OverlongName(value) ==
    /\ OwnResolved("Person")
    /\ "name" \in DOMAIN value.v
    /\ ~FitsString(value.v.name, Field(World, "PersonSchema", "name").length)
    /\ Matches(Obj(Put(value.v, "name", Str(<<>>))), "PersonSchema")

\* C5: from() with an over-long value for a plain string field raises no
\* error, and the field decodes to the longest prefix of whole code points
\* that fits in the declared length.
C5_OverlongTruncates ==
    (pc >= 1 /\ OverlongName(src))
    => /\ err = "none"
       /\ pc >= 2 =>
             ret.v.name = Str(FitPrefix(src.v.name.v,
                                 Field(World, "PersonSchema", "name").length))

-----------------------------------------------------------------------------
(* A Person view over a window of a larger buffer: get, set, from(object,  *)
(* view), toObject, and writes through the view that get returned.         *)

MaxOffset == 1     \* byteOffset of the view
MaxSteps == 2      \* operations of one run

\* the byte every position of the buffer holds at first
Fill == {0, 97}

\* the values set() gives a field of Person
ViewOptions(name) ==
    CASE name = "id" -> {Num(258)}
      [] name = "name" -> {Str(<<97, 233>>), Str(<<233, 233>>)}
      [] name = "scores" ->
            {Arr(<<Num(-2), Num(300)>>), Arr(<<Num(7)>>),
             Arr(<<Num(1), Num(2), Num(3)>>)}
      [] name = "tags" ->
            {Arr(<<Str(<<233>>), Str(<<97>>)>>), Arr(<<Str(<<97>>)>>),
             Arr(<<Str(<<97, 233>>), Str(<<>>), Str(<<97, 97>>)>>)}
      [] name = "house" ->
            {Obj([size |-> Num(513), rooms |-> Num(-1)]),
             Obj([rooms |-> Num(5), zzz |-> Num(9)]),
             Obj([size |-> Num(70000)])}
      [] name = "pets" ->
            {Arr(<<Obj([type |-> Str(<<97, 97>>), age |-> Num(200)]),
                   Obj([type |-> Str(<<233>>), age |-> Num(1)])>>),
             Arr(<<Obj([type |-> Str(<<97>>)])>>),
             Arr(<<Obj([type |-> Str(<<97>>), age |-> Num(1)]),
                   Obj([type |-> Str(<<97>>), age |-> Num(2)]),
                   Obj([type |-> Str(<<97>>), age |-> Num(3)])>>)}

\* the objects from(object, view) is given
ViewTrees ==
    {Obj([id |-> Num(65535), house |-> Obj([rooms |-> Num(127)])]),
     Obj([name |-> Str(<<97>>), zzz |-> Num(9)])}

\* the values set() gives a field of the House view that get('house') returned
HouseOptions(name) ==
    CASE name = "size" -> {Num(513)}
      [] name = "rooms" -> {Num(-1)}

\* the byte written through a view that get returned
PokeBytes == {98}

\* the bytes of the views given to setView: a view of another buffer, as
\* long as the shortest field or longer than the longest
OtherViews == {<<101, 102>>, <<101, 102, 103, 104, 105, 106, 107>>}

\* the view as the window it is
Window(s) == [byteOffset |-> s.byteOffset, byteLength |-> s.byteLength]

InitView ==
    LET r == GetLength([statics |-> DeclaredStatics, schemas |-> ViewSchemas],
                       "Person")
    IN  /\ statics = r.w.statics
        /\ schemas = r.w.schemas
        /\ declared = ViewSchemas
        /\ \E b \in Fill : buffer = [i \in 1..(r.ret + MaxOffset) |-> b]
        /\ \E o \in 0..MaxOffset :
           \E n \in {r.w.schemas["PersonSchema"][i].start :
                         i \in 1..Len(ViewSchemas["PersonSchema"])} \cup {r.ret} :
              view = [byteOffset |-> o, byteLength |-> n]
        /\ sub = NoSub
        /\ src = Undefined
        /\ ret = Undefined
        /\ err = "none"
        /\ last = NoLast
        /\ pc = 0

\* s.set(name, value)
ViewSet(name, value) ==
    /\ pc < MaxSteps
    /\ LET r == SetValue(World, buffer, view, name, value,
                         Static(World, "Person", "schema"), 0)
       IN  buffer' = r.buf /\ err' = r.err
    /\ last' = [op |-> "set", field |-> name, value |-> value, before |-> buffer]
    /\ pc' = pc + 1
    /\ UNCHANGED <<statics, schemas, declared, view, sub, src, ret>>

\* Person.from(object, s)
ViewFrom(object) ==
    /\ pc < MaxSteps
    /\ LET r == SetObject(World, buffer, view, 0, object, "Person")
       IN  buffer' = r.buf /\ err' = r.err
    /\ last' = [op |-> "from", value |-> object, before |-> buffer]
    /\ pc' = pc + 1
    /\ UNCHANGED <<statics, schemas, declared, view, sub, src, ret>>

\* s.setView(name, other), other a view over the given bytes
ViewSetView(name, bytes) ==
    /\ pc < MaxSteps
    /\ \E r \in {SetView(World, buffer, view, "Person", name, bytes)} :
          buffer' = r.buf /\ err' = r.err
    /\ last' = [op |-> "setView", field |-> name, value |-> bytes,
                before |-> buffer]
    /\ pc' = pc + 1
    /\ UNCHANGED <<statics, schemas, declared, view, sub, src, ret>>

\* s.get(name): the number read, or the view returned (kept in sub)
ViewGet(name) ==
    /\ pc < MaxSteps
    /\ LET field == Field(World, Static(World, "Person", "schema"), name)
           r == Get(World, buffer, view, "Person", name)
       IN  /\ err' = r.err
           /\ IF field.type \in NumericKinds
              THEN ret' = r.val /\ sub' = sub
              ELSE /\ ret' = ret
                   /\ sub' = IF r.err # "none" THEN sub
                             ELSE [kind |-> field.type, field |-> name,
                                   byteOffset |-> r.val.byteOffset,
                                   byteLength |-> r.val.byteLength]
    /\ last' = [op |-> "get", field |-> name]
    /\ pc' = pc + 1
    /\ UNCHANGED <<statics, schemas, declared, buffer, view, src>>

\* s.toObject()
ViewToObject ==
    /\ pc < MaxSteps
    /\ LET r == ToObject(World, buffer, view, "Person")
       IN  ret' = r.val /\ err' = r.err
    /\ last' = [op |-> "toObject"]
    /\ pc' = pc + 1
    /\ UNCHANGED <<statics, schemas, declared, buffer, view, sub, src>>

\* h.set(name, value) on the House view h that s.get('house') returned
SubSet(name, value) ==
    /\ pc < MaxSteps
    /\ sub.kind = "object"
    /\ LET field == Field(World, Static(World, "Person", "schema"), sub.field)
           r == SetValue(World, buffer, Window(sub), name, value,
                         Static(World, field.ctor, "schema"), 0)
       IN  buffer' = r.buf /\ err' = r.err
    /\ last' = [op |-> "subset", field |-> name, value |-> value,
                before |-> buffer]
    /\ pc' = pc + 1
    /\ UNCHANGED <<statics, schemas, declared, view, sub, src, ret>>

\* one byte written through the view that get returned, at the first or at
\* the last index of its own window
SubPoke(end, b) ==
    /\ pc < MaxSteps
    /\ sub.kind # "none"
    /\ LET k == IF end = "first" THEN 0 ELSE sub.byteLength - 1
       IN  /\ buffer' = WriteBytes(buffer, sub.byteOffset + k, <<b>>)
           /\ last' = [op |-> "poke", at |-> k, before |-> buffer]
    /\ err' = "none"
    /\ pc' = pc + 1
    /\ UNCHANGED <<statics, schemas, declared, view, sub, src, ret>>

NextView ==
    \/ \E name \in PersonFields : \E value \in ViewOptions(name) :
          ViewSet(name, value)
    \/ \E object \in ViewTrees : ViewFrom(object)
    \/ \E name \in {"id", "house", "pets"} : \E bytes \in OtherViews :
          ViewSetView(name, bytes)
    \/ \E name \in PersonFields : ViewGet(name)
    \/ ViewToObject
    \/ \E name \in {"size", "rooms"} : \E value \in HouseOptions(name) :
          SubSet(name, value)
    \/ \E end \in {"first", "last"} : \E b \in PokeBytes : SubPoke(end, b)

SpecView == InitView /\ [][NextView]_vars

-----------------------------------------------------------------------------
(* Properties of the views.                                                *)

\* the field of Person that the view kept in sub was returned for
SubField == Field(World, "PersonSchema", sub.field)

\* what the view kept in sub decodes its own window to
SubValue ==
    GetFieldValue(World, buffer, Window(sub), [SubField EXCEPT !.start = 0], 0)

\* C8: once get(field) has returned a view of a composite field, at every
\* later moment and whatever has been written through either view since, the
\* returned view is the window of the field's length at byteOffset + start
\* on the same buffer, and it decodes to what the struct view reads for the
\* field.
C8_Aliasing ==
    sub.kind # "none"
    => /\ sub.byteOffset = view.byteOffset + SubField.start
       /\ sub.byteLength = SubField.length
       /\ LET r == GetFieldValue(World, buffer, view, SubField, 0)
          IN  r.err = "none" => SubValue = r

\* a write through the House view that get('house') returned on a view that
\* starts inside the buffer has changed what the struct view reads
C8_Witness ==
    /\ sub.kind = "object" /\ view.byteOffset > 0
    /\ last.op = "subset" /\ err = "none"
    /\ buffer # last.before
    /\ GetFieldValue(World, buffer, view, SubField, 0).err = "none"
    /\ GetFieldValue(World, buffer, view, SubField, 0)
         # GetFieldValue(World, last.before, view, SubField, 0)

\* C9: get(field) raises an out-of-range error whenever the window of the
\* struct view does not contain the region of the field, for scalar and for
\* composite fields, also when the buffer extends past the window.
C9_GetOutOfWindow ==
    (last.op = "get"
     /\ LET field == Field(World, "PersonSchema", last.field)
        IN  field.start + field.length > view.byteLength)
    => err = "RangeError"

\* bytes n bytes from offset at are the same in the buffers a and b
SameBytes(a, b, at, n) == ReadBytes(a, at, n) = ReadBytes(b, at, n)

\* the write of the object value to the struct of schema sid at offset
\* position of the view took the buffer from before to after as a merge
Merged(before, after, position, sid, cls, value) ==
    LET schema == schemas[sid]
        base == view.byteOffset + position
    IN  /\ \A i \in 1..Len(schema) :
              IF schema[i].name \in DOMAIN value.v
              THEN err = "none" =>
                      SameBytes(after,
                                SetValue(World, before, view, schema[i].name,
                                         value.v[schema[i].name], sid,
                                         position).buf,
                                base + schema[i].start, schema[i].length)
              ELSE SameBytes(after, before, base + schema[i].start,
                             schema[i].length)
        /\ \A k \in 0..(Len(before) - 1) :
              (k < base \/ k >= base + statics[cls].objectLength)
              => SameBytes(after, before, k, 1)

\* C10: set(field, object) on a nested struct field and from(object, view)
\* leave the bytes of every schema field absent from the object, and every
\* byte outside the struct, as they were; when they return normally every
\* schema field present on the object holds what writing it alone gives;
\* keys that are no schema fields change nothing.
C10_Merge ==
    /\ (last.op = "set" /\ last.field = "house")
       => Merged(last.before, buffer,
                 Field(World, "PersonSchema", "house").start,
                 "HouseSchema", "House", last.value)
    /\ last.op = "from"
       => Merged(last.before, buffer, 0, "PersonSchema", "Person", last.value)

\* set('house', { rooms, zzz }) has written rooms over bytes that were not
\* zero and has left size as it was
C10_Witness ==
    /\ last.op = "set" /\ last.field = "house" /\ err = "none"
    /\ DOMAIN last.value.v = {"rooms", "zzz"}
    /\ buffer # last.before
    /\ LET at == view.byteOffset + Field(World, "PersonSchema", "house").start
       IN  ReadBytes(buffer, at, 2) = <<97, 97>>

\* the window from the start of the struct view to the end of the buffer
Whole == [byteOffset |-> view.byteOffset,
          byteLength |-> Len(buffer) - view.byteOffset]

\* slot i (0-based) of the array field decodes to the source element e: to
\* the number, or to a struct that has every field of e
SlotHolds(field, i, e) ==
    LET r == GetFieldValue(World, buffer, Whole, field, 0)
    IN  /\ r.err = "none"
        /\ IF e.t = "object"
           THEN \A g \in DOMAIN e.v : r.val.v[i + 1].v[g] = e.v[g]
           ELSE r.val.v[i + 1] = e

\* C11: set() of a typed-array or struct-array field of declared size n from
\* a source of k elements changes no byte outside the region of the field
\* and no byte of the slots min(n, k) .. n - 1; when it returns normally,
\* slot i < min(n, k), at start + i x stride, holds source element i.
C11_ArraySlots ==
    (last.op = "set" /\ last.field \in {"scores", "pets"})
    => LET field == Field(World, "PersonSchema", last.field)
           base == view.byteOffset + field.start
           n == field.size
           k == Len(last.value.v)
           stride == field.length \div n
       IN  /\ \A at \in 0..(Len(buffer) - 1) :
                 (at < base \/ at >= base + field.length)
                 => SameBytes(buffer, last.before, at, 1)
           /\ \A i \in Min(n, k)..(n - 1) :
                 SameBytes(buffer, last.before, base + i * stride, stride)
           /\ err = "none"
                 => \A i \in 0..(Min(n, k) - 1) :
                       SlotHolds(field, i, last.value.v[i + 1])

\* one Pet has been written to the struct array of two over bytes that were
\* not zero: the second slot is as it was
C11_Witness ==
    /\ last.op = "set" /\ last.field = "pets" /\ err = "none"
    /\ Len(last.value.v) = 1
    /\ buffer # last.before
    /\ LET field == Field(World, "PersonSchema", "pets")
       IN  ReadBytes(buffer, view.byteOffset + field.start + 3, 3)
             = <<97, 97, 97>>

\* C12: when from(object) without a view returns, the struct type is
\* resolved, the view is the window on all of a buffer of exactly
\* objectLength bytes, every byte of a field absent from object is zero, and
\* every field present on object holds what writing it to zeroed bytes
\* gives.
C12_FromFresh ==
    (pc = 1 /\ last.op = "from" /\ err = "none")
    => LET schema == schemas["PersonSchema"]
           n == Len(buffer)
       IN  /\ OwnResolved("Person")
           /\ n = statics["Person"].objectLength
           /\ n = SumLengths(schema, Len(schema))
           /\ view = [byteOffset |-> 0, byteLength |-> n]
           /\ \A i \in 1..Len(schema) :
                 IF schema[i].name \in DOMAIN src.v
                 THEN SameBytes(buffer,
                                SetValue(World, Zeros(n), view, schema[i].name,
                                         src.v[schema[i].name], "PersonSchema",
                                         0).buf,
                                schema[i].start, schema[i].length)
                 ELSE ReadBytes(buffer, schema[i].start, schema[i].length)
                         = Zeros(schema[i].length)

\* from({ id, house }) has returned a view on 22 bytes that are not all zero
C12_Witness ==
    /\ pc = 1 /\ last.op = "from" /\ err = "none"
    /\ DOMAIN src.v = {"id", "house"}
    /\ Len(buffer) = 22
    /\ buffer # Zeros(22)

\* the two bytes of a 16-bit number, most significant first
MsbFirst(n) == <<(n % 65536) \div 256, n % 256>>

\* the bytes the declared descriptor d asks for: least significant first
\* when its littleEndian flag is true, most significant first otherwise
InDeclaredOrder(d, n) ==
    IF "littleEndian" \in DOMAIN d /\ d.littleEndian
    THEN Reverse(MsbFirst(n)) ELSE MsbFirst(n)

\* the declared descriptor of a field
DeclaredField(sid, name) ==
    declared[sid][CHOOSE i \in 1..Len(declared[sid]) :
                     declared[sid][i].name = name]

\* C13: a 16-bit scalar or typed-array element is stored in the byte order
\* of its own field: most significant byte first when the declared
\* littleEndian flag is unspecified (id), least significant first when it is
\* true (scores, house.size), whatever the flags of the other fields; and
\* reading the field after the write gives the in-range value written.
C13_ByteOrder ==
    (last.op = "set" /\ err = "none")
    => LET at == view.byteOffset + Field(World, "PersonSchema", last.field).start
       IN  /\ last.field = "id"
              => /\ ReadBytes(buffer, at, 2)
                      = InDeclaredOrder(DeclaredField("PersonSchema", "id"),
                                        last.value.v)
                 /\ Get(World, buffer, view, "Person", "id") = Val(last.value)
           /\ last.field = "scores"
              => \A i \in 0..(Min(2, Len(last.value.v)) - 1) :
                    /\ ReadBytes(buffer, at + 2 * i, 2)
                         = InDeclaredOrder(DeclaredField("PersonSchema", "scores"),
                                           last.value.v[i + 1].v)
                    /\ SlotHolds(Field(World, "PersonSchema", "scores"), i,
                                 last.value.v[i + 1])
           /\ (last.field = "house" /\ "size" \in DOMAIN last.value.v)
              => ReadBytes(buffer, at, 2)
                   = InDeclaredOrder(DeclaredField("HouseSchema", "size"),
                                     last.value.v.size.v)

\* id 258 has been stored as 1, 2 next to scores -2, 300 stored as 254, 255,
\* 44, 1
C13_Witness ==
    /\ last.op = "set" /\ last.field = "id" /\ err = "none"
    /\ ReadBytes(buffer, view.byteOffset, 2) = <<1, 2>>
    /\ ReadBytes(buffer, view.byteOffset
                            + Field(World, "PersonSchema", "scores").start, 4)
         = <<254, 255, 44, 1>>

RECURSIVE ZeroOf(_)
\* what a struct of schema sid whose bytes are all zero decodes to
ZeroOf(sid) ==
    LET schema == schemas[sid]
        zero(f) ==
            CASE f.type \in NumericKinds -> Num(0)
              [] f.type = "string" -> Str(<<>>)
              [] f.type = "typedarray" -> Arr([k \in 1..f.size |-> Num(0)])
              [] f.type = "stringarray" -> Arr([k \in 1..f.size |-> Str(<<>>)])
              [] f.type = "array" ->
                    Arr([k \in 1..f.size |-> ZeroOf(statics[f.ctor.of].schema)])
              [] f.type = "object" -> ZeroOf(statics[f.ctor].schema)
    IN  Obj([name \in {schema[i].name : i \in 1..Len(schema)} |->
                zero(schema[CHOOSE i \in 1..Len(schema) : schema[i].name = name])])

RECURSIVE Shaped(_, _)
\* the value is a plain object with exactly one entry per field of schema
\* sid: a number, a string, an array of exactly the declared size, or a
\* plain object of the nested schema
Shaped(value, sid) ==
    /\ value.t = "object"
    /\ DOMAIN value.v = {schemas[sid][i].name : i \in 1..Len(schemas[sid])}
    /\ \A i \in 1..Len(schemas[sid]) :
          LET f == schemas[sid][i]
              x == value.v[f.name]
          IN  CASE f.type \in NumericKinds -> x.t = "number"
                [] f.type = "string" -> x.t = "string"
                [] f.type = "typedarray" ->
                      /\ x.t = "array" /\ Len(x.v) = f.size
                      /\ \A k \in 1..Len(x.v) : x.v[k].t = "number"
                [] f.type = "stringarray" ->
                      /\ x.t = "array" /\ Len(x.v) = f.size
                      /\ \A k \in 1..Len(x.v) : x.v[k].t = "string"
                [] f.type = "array" ->
                      /\ x.t = "array" /\ Len(x.v) = f.size
                      /\ \A k \in 1..Len(x.v) :
                            Shaped(x.v[k], statics[f.ctor.of].schema)
                [] f.type = "object" -> Shaped(x, statics[f.ctor].schema)

\* the number of elements the source tree gives an array field
Supplied(name) ==
    IF name \in DOMAIN src.v /\ src.v[name].t = "array"
    THEN Len(src.v[name].v) ELSE 0

\* C15: toObject() of the view from(v) returned is a plain object with one
\* entry per schema field, recursively; every array field has exactly its
\* declared size entries, and the entries v did not supply are 0, the empty
\* string, or a struct of zero and empty fields; for the README example
\* scores is [1, 2, 3, 0, 0, 0, 0, 0, 0, 0] and the third pet has type ''.
C15_ToObjectShape ==
    (pc >= 2 /\ err = "none")
    => /\ Shaped(ret, "PersonSchema")
       /\ \A i \in 1..Len(schemas["PersonSchema"]) :
             LET f == schemas["PersonSchema"][i]
             IN  f.type \in {"typedarray", "stringarray", "array"}
                 => \A k \in (Supplied(f.name) + 1)..f.size :
                       ret.v[f.name].v[k]
                         = ZeroOf("PersonSchema").v[f.name].v[k]
       /\ src = ReadmeTree
             => /\ ret.v.scores
                     = Arr([k \in 1..10 |-> IF k <= 3 THEN Num(k) ELSE Num(0)])
                /\ ret.v.pets.v[3] = Obj([type |-> Str(<<>>)])

\* the README example has been decoded: ten scores, three pets
C15_Witness ==
    /\ pc = 2 /\ last.op = "toObject" /\ err = "none"
    /\ src = ReadmeTree
    /\ Len(ret.v.scores.v) = 10 /\ ret.v.scores.v[4] = Num(0)
    /\ Len(ret.v.pets.v) = 3
    /\ ret.v.pets.v[1] = Obj([type |-> Str(<<100, 111, 103>>)])

\* C16: when initialize() or getLength() has failed on a struct type whose
\* declared schema has a field of an invalid type, every field descriptor of
\* its schema is as declared (no start, length, ctor or rewritten type), and
\* the type is unresolved and has no objectLength of its own.
C16_AllOrNothing ==
    \A c \in Classes :
        (InvalidSchema(c) /\ last.op \in {"initialize", "getLength"}
            /\ last.cls = c /\ err = "TypeError")
        => /\ SchemaOf(c) = DeclaredOf(c)
           /\ ~OwnResolved(c)
           /\ "objectLength" \notin DOMAIN statics[c]

\* C17: set() of a string-array field of n strings of L bytes changes no
\* byte outside the n x L region of the field; when it returns, slot i <
\* min(n, source length), at offset i x L, holds the UTF-8 bytes of the
\* longest prefix of source string i that fits, padded with zeros to L
\* bytes, and every other slot is all zeros and reads as the empty string,
\* whatever it held before.
C17_StringArrayWrite ==
    (last.op = "set" /\ last.field = "tags")
    => LET field == Field(World, "PersonSchema", "tags")
           base == view.byteOffset + field.start
           n == field.size
           L == field.stringLength
           k == Len(last.value.v)
           read == GetFieldValue(World, buffer, Whole, field, 0)
       IN  /\ field.length = n * L
           /\ \A at \in 0..(Len(buffer) - 1) :
                 (at < base \/ at >= base + n * L)
                 => SameBytes(buffer, last.before, at, 1)
           /\ err = "none"
              => \A i \in 0..(n - 1) :
                    IF i < Min(n, k)
                    THEN LET text == Utf8Encode(FitPrefix(last.value.v[i + 1].v, L))
                         IN  /\ ReadBytes(buffer, base + i * L, L)
                                  = text \o Zeros(L - Len(text))
                             /\ FitsString(last.value.v[i + 1], L)
                                  => read.val.v[i + 1] = last.value.v[i + 1]
                    ELSE /\ ReadBytes(buffer, base + i * L, L) = Zeros(L)
                         /\ read.val.v[i + 1] = Str(<<>>)

\* one string has been written to the string array of two over bytes that
\* were not zero: the second slot, which held text, is now empty
C17_Witness ==
    /\ last.op = "set" /\ last.field = "tags" /\ err = "none"
    /\ Len(last.value.v) = 1
    /\ LET at == view.byteOffset + Field(World, "PersonSchema", "tags").start
       IN  /\ ReadBytes(last.before, at, 4) = <<97, 97, 97, 97>>
           /\ ReadBytes(buffer, at, 4) = <<97, 0, 0, 0>>

\* C18: setView(field, otherView) raises no error, leaves the bytes of
\* otherView, in order, from the start of the field on, and changes no byte
\* outside the region [start, start + length) of the field, whatever the
\* byte length of otherView.
C18_SetViewInField ==
    last.op = "setView"
    => LET field == Field(World, "PersonSchema", last.field)
           base == view.byteOffset + field.start
       IN  /\ err = "none"
           /\ ReadBytes(buffer, base, Len(last.value)) = last.value
           /\ \A at \in 0..(Len(buffer) - 1) :
                 (at < base \/ at >= base + field.length)
                 => SameBytes(buffer, last.before, at, 1)

-----------------------------------------------------------------------------
(* Resolution in a program where a struct type extends another.            *)

\* Villa.schema = { size: uint32, pool: uint8 }
VillaSchema ==
    <<[name |-> "size", type |-> "uint32"], [name |-> "pool", type |-> "uint8"]>>

InitInherit ==
    /\ statics = DeclaredStatics @@ [Villa |-> [schema |-> "VillaSchema"]]
    /\ \E program \in {ReadmeSchemas, ViewSchemas} :
          schemas = program @@ [VillaSchema |-> VillaSchema]
    /\ declared = schemas
    /\ buffer = <<>>
    /\ view = NoView
    /\ sub = NoSub
    /\ src = Undefined
    /\ ret = 0
    /\ err = "none"
    /\ last = NoLast
    /\ pc = 0

NextInherit ==
    \/ \E c \in AllClasses : DoInitialize(c)
    \/ \E c \in AllClasses : DoGetLength(c)

SpecInherit == InitInherit /\ [][NextInherit]_vars

RECURSIVE DeclaredLength(_)
\* the sum of the lengths the declared descriptors of a schema ask for
DeclaredLength(sid) ==
    LET d == declared[sid]
        count(f) == IF "size" \in DOMAIN f THEN f.size ELSE 1
        one(f) == IF f.type \in NumericKinds THEN WidthOfKind(f.type)
                  ELSE IF f.type = "string" THEN f.length
                  ELSE DeclaredLength(DeclaredStatics[f.type].schema)
        sum[n \in 0..Len(d)] ==
            IF n = 0 THEN 0 ELSE sum[n - 1] + count(d[n]) * one(d[n])
    IN  sum[Len(d)]

\* C19: whenever getLength() returns on a struct type that declares its own
\* schema, in whatever order struct types were resolved before, it returns
\* the sum of the field lengths of that schema, and the type has the field
\* list of that schema; also when the type extends a struct type that is
\* already resolved.
C19_OwnLength ==
    \A c \in AllClasses \ {"Twin"} :
        (last.op = "getLength" /\ last.cls = c /\ err = "none")
        => /\ ret = DeclaredLength(statics[c].schema)
           /\ "fields" \in DOMAIN statics[c]
           /\ statics[c].fields = Keys(declared[statics[c].schema])

-----------------------------------------------------------------------------
(* Views of a struct type that nothing has resolved yet: the program       *)
(* constructs the view over a buffer of its own and uses it at once.       *)

\* new Person(buffer, byteOffset, byteLength) with Person.getLength() and
\* Person.initialize() not yet called
InitLazy ==
    /\ statics = DeclaredStatics
    /\ schemas = ViewSchemas
    /\ declared = ViewSchemas
    /\ \E r \in {GetLength([statics |-> DeclaredStatics,
                             schemas |-> ViewSchemas], "Person")} :
          /\ \E b \in Fill : buffer = [i \in 1..(r.ret + MaxOffset) |-> b]
          /\ \E o \in 0..MaxOffset :
             \E n \in {r.w.schemas["PersonSchema"][i].start :
                           i \in 1..Len(ViewSchemas["PersonSchema"])}
                       \cup {r.ret} :
                view = [byteOffset |-> o, byteLength |-> n]
    /\ sub = NoSub
    /\ src = Undefined
    /\ ret = Undefined
    /\ err = "none"
    /\ last = NoLast
    /\ pc = 0

NextLazy ==
    \/ \E name \in PersonFields \ {"tags"} : \E value \in ViewOptions(name) :
          ViewSet(name, value)
    \/ \E object \in ViewTrees : ViewFrom(object)
    \/ \E name \in PersonFields : ViewGet(name)
    \/ ViewToObject

SpecLazy == InitLazy /\ [][NextLazy]_vars

\* the program after Person.getLength()
Resolved ==
    GetLength([statics |-> DeclaredStatics, schemas |-> declared], "Person").w

\* C20: on a view of a struct type that nothing has resolved yet, get, set,
\* toObject and from(object, view) do what they do after an explicit
\* resolution: same bytes written, same value or view returned, same outcome
C20_FirstUseResolves ==
    /\ last.op = "set"
       => \E r \in {SetValue(Resolved, last.before, view, last.field,
                              last.value, "PersonSchema", 0)} :
             buffer = r.buf /\ err = r.err
    /\ last.op = "from"
       => \E r \in {SetObject(Resolved, last.before, view, 0, last.value,
                               "Person")} :
             buffer = r.buf /\ err = r.err
    /\ last.op = "get"
       => \E r \in {Get(Resolved, buffer, view, "Person", last.field)} :
             /\ err = r.err
             /\ err = "none"
                => IF Field(Resolved, "PersonSchema", last.field).type
                          \in NumericKinds
                   THEN ret = r.val
                   ELSE Window(sub) = r.val
    /\ last.op = "toObject"
       => \E r \in {ToObject(Resolved, buffer, view, "Person")} :
             err = r.err /\ (err = "none" => ret = r.val)

-----------------------------------------------------------------------------
(* Writes and the window of the view.                                      *)

\* the 0-based buffer index at lies outside the window of the struct view
OutsideWindow(at) ==
    at < view.byteOffset \/ at >= view.byteOffset + view.byteLength

\* C21: set, setView and from(object, view) change no byte of the buffer
\* outside the window of the struct view, also when the window is shorter
\* than objectLength and the buffer extends beyond it; a set of a field
\* whose region does not fit the window fails.
C21_WindowFrame ==
    /\ last.op \in {"set", "setView", "from"}
       => \A at \in 0..(Len(buffer) - 1) :
             OutsideWindow(at) => SameBytes(buffer, last.before, at, 1)
    /\ (last.op = "set"
        /\ LET field == Field(World, "PersonSchema", last.field)
           IN  field.start + field.length > view.byteLength)
       => err # "none"

\* C22: set of the struct-array field pets on a window that holds the field
\* raises no error for an element object that lacks a schema field of Pet,
\* and leaves the bytes of that field in the slot of the element as they
\* were.
C22_ArrayElementMerge ==
    (last.op = "set" /\ last.field = "pets")
    => LET field == Field(World, "PersonSchema", "pets")
           max == Min(field.size, LengthOf(last.value))
           pet == schemas["PetSchema"]
       IN  field.start + field.length <= view.byteLength
           => \A i \in 0..(max - 1) : \A j \in 1..Len(pet) :
                 pet[j].name \notin DOMAIN last.value.v[i + 1].v
                 => /\ err = "none"
                    /\ SameBytes(buffer, last.before,
                                 view.byteOffset + field.start
                                   + i * statics["Pet"].objectLength
                                   + pet[j].start,
                                 pet[j].length)

-----------------------------------------------------------------------------
(* Resolution of nested struct types.                                      *)

\* the struct types a schema may nest
NestedTypes == {"House", "Pet"}

\* the declared descriptor d nests a struct type without size
NestsStruct(d) ==
    "type" \in DOMAIN d /\ d.type \in NestedTypes /\ "size" \notin DOMAIN d

RECURSIVE NestedResolved(_)
\* every struct type that the schema of c nests without size, directly or
\* through a nested type, is resolved, and the field that nests it has the
\* objectLength of the nested type as its length
NestedResolved(c) ==
    \A i \in 1..Len(DeclaredOf(c)) :
        NestsStruct(DeclaredOf(c)[i])
        => /\ OwnResolved(DeclaredOf(c)[i].type)
           /\ "length" \in DOMAIN SchemaOf(c)[i]
           /\ SchemaOf(c)[i].length
                = statics[DeclaredOf(c)[i].type].objectLength
           /\ NestedResolved(DeclaredOf(c)[i].type)

\* C23: getLength() terminates on the acyclic schemas of the program; when
\* it returns, every struct type nested without size is resolved and the
\* field that nests it has the nested objectLength as its length; a nested
\* type that is already resolved is not resolved again by a later
\* getLength(): its descriptors, field list and objectLength stay.
C23_NestedResolvedOnce ==
    /\ [](\A c \in Classes :
             (last.op = "getLength" /\ last.cls = c /\ err = "none")
             => NestedResolved(c))
    /\ [][\A d \in NestedTypes :
             (OwnResolved(d) /\ last'.op = "getLength")
             => /\ statics'[d] = statics[d]
                /\ schemas'[statics[d].schema] = schemas[statics[d].schema]]_vars

\* Person.getLength() has returned for a Person that nests a Pet and a
\* House that nests a Pet too: Pet has two parents, and all three are
\* resolved
C23_Witness ==
    /\ last.op = "getLength" /\ last.cls = "Person" /\ err = "none"
    /\ \E i \in 1..Len(DeclaredOf("Person")) :
          NestsStruct(DeclaredOf("Person")[i])
          /\ DeclaredOf("Person")[i].type = "Pet"
    /\ \E i \in 1..Len(DeclaredOf("Person")) :
          NestsStruct(DeclaredOf("Person")[i])
          /\ DeclaredOf("Person")[i].type = "House"
    /\ \E i \in 1..Len(DeclaredOf("House")) : NestsStruct(DeclaredOf("House")[i])
    /\ OwnResolved("Person") /\ OwnResolved("House") /\ OwnResolved("Pet")
    /\ ret = SumLengths(SchemaOf("Person"), Len(SchemaOf("Person")))

-----------------------------------------------------------------------------
(* Position independence.                                                  *)

\* a copy of the bytes [b, b + objectLength) of buf, b the byteOffset of the
\* struct view
CopyAtOffset(buf) ==
    ReadBytes(buf, view.byteOffset, statics["Person"].objectLength)

\* the window of the struct view, moved to offset 0
AtZero == [byteOffset |-> 0, byteLength |-> view.byteLength]

\* C24: toObject(), get(field) and set(field, value) on a view at byteOffset
\* b do what they do on a view at offset 0 over a copy of the bytes
\* [b, b + objectLength): same object, same number, the returned view b
\* bytes further, the same relative bytes written and no other byte changed.
C24_PositionIndependent ==
    /\ last.op = "toObject"
       => \E r \in {ToObject(World, CopyAtOffset(buffer), AtZero, "Person")} :
             err = r.err /\ (err = "none" => ret = r.val)
    /\ last.op = "get"
       => \E r \in {Get(World, CopyAtOffset(buffer), AtZero, "Person",
                         last.field)} :
             /\ err = r.err
             /\ err = "none"
                => IF Field(World, "PersonSchema", last.field).type
                          \in NumericKinds
                   THEN ret = r.val
                   ELSE /\ sub.byteOffset = view.byteOffset + r.val.byteOffset
                        /\ sub.byteLength = r.val.byteLength
    /\ last.op = "set"
       => \E r \in {SetValue(World, CopyAtOffset(last.before), AtZero,
                              last.field, last.value, "PersonSchema", 0)} :
             /\ err = r.err
             /\ CopyAtOffset(buffer) = r.buf
             /\ \A at \in 0..(Len(buffer) - 1) :
                   (at < view.byteOffset
                    \/ at >= view.byteOffset + statics["Person"].objectLength)
                   => SameBytes(buffer, last.before, at, 1)

\* toObject() has returned on a view that starts inside the buffer, and a
\* view at offset 0 of the same buffer reads another object
C24_Witness ==
    /\ last.op = "toObject" /\ err = "none"
    /\ view.byteOffset > 0
    /\ ToObject(World, buffer, AtZero, "Person").err = "none"
    /\ ret # ToObject(World, buffer, AtZero, "Person").val

====
